---- MODULE Spec2Model ----
(***************************************************************************)
(* Model of scripts/generate_assets.py: a one-shot generator of            *)
(* placeholder PNG assets (extension icons, store screenshots, one promo   *)
(* tile).                                                                  *)
(*                                                                         *)
(* State: the part of the filesystem the script touches (directories and   *)
(* files with the dimensions of the bitmap stored in them), the system     *)
(* fonts that can be loaded, the position of the driver main(), the        *)
(* arguments of the call being made, the bitmap it builds, the paths       *)
(* written by the current run, the standard output of the current run and  *)
(* a summary of the earlier runs.                                          *)
(*                                                                         *)
(* Paths are sequences of components; strings keep ASCII ("-" stands for   *)
(* the non-breaking hyphen and "->" for the arrow of the source titles).   *)
(* Pixel coordinates that the source computes with "/ 2" are held doubled  *)
(* (suffix 2), so that no fraction is rounded away.                        *)
(***************************************************************************)
EXTENDS Integers, Sequences, FiniteSets, TLC

VARIABLES dirs, files, fontsAvail, pc, status, err, call, img, written, out, history

vars == <<dirs, files, fontsAvail, pc, status, err, call, img, written, out, history>>

\* ------------------------------------------------------------------ bounds
\* number of runs of the driver in one behaviour
MaxRuns == 2
\* number of library calls an arbitrary caller makes in one behaviour
MaxCalls == 2
\* icon sizes 1..MaxSmallSize are tried besides the driver's four sizes
MaxSmallSize == 6

\* ------------------------------------------------------------------- paths
ROOT == <<"ROOT">>

ASSETS_DIR == ROOT \o <<"myayai-extension", "assets", "icons">>

STORE_DIR == ROOT \o <<"store-assets">>

SCREENSHOTS_DIR == STORE_DIR \o <<"screenshots">>

JoinStamped(dir, filename) ==
    Append(dir, ToString(Len(history) + 1) \o "-" \o filename)

\* pathlib's "/" with a plain file name
Join(dir, filename) == Append(dir, filename)

Parent(p) == SubSeq(p, 1, Len(p) - 1)

\* p and every directory above it
Ancestors(p) == {SubSeq(p, 1, k) : k \in 1..Len(p)}

\* Path.mkdir(parents, exist_ok) on the directory set ds; fault: the
\* operating system refuses (permissions, read-only volume, ...)
mkdir(ds, p, parents, exist_ok, fault) ==
    IF fault THEN [err |-> "OSError:mkdir", dirs |-> ds]
    ELSE IF p \in ds
         THEN IF exist_ok THEN [err |-> "none", dirs |-> ds]
              ELSE [err |-> "FileExistsError", dirs |-> ds]
    ELSE IF Parent(p) \in ds THEN [err |-> "none", dirs |-> ds \cup {p}]
    ELSE IF parents THEN [err |-> "none", dirs |-> ds \cup Ancestors(p)]
    ELSE [err |-> "FileNotFoundError", dirs |-> ds]

EnsureDirListIconsOnly == <<ASSETS_DIR>>

\* the list ensure_dirs iterates over
EnsureDirList == <<ASSETS_DIR, SCREENSHOTS_DIR>>

RECURSIVE ensure_loop(_, _, _)
\* the for loop of ensure_dirs from its i-th element; the f-th mkdir is the
\* one the operating system refuses (f = 0: none)
ensure_loop(ds, i, f) ==
    IF i > Len(EnsureDirList) THEN [err |-> "none", dirs |-> ds]
    ELSE LET r == mkdir(ds, EnsureDirList[i], TRUE, TRUE, f = i)
         IN  IF r.err = "none" THEN ensure_loop(r.dirs, i + 1, f) ELSE r

\* -------------------------------------------------------------------- fonts
PrimaryFont == "/System/Library/Fonts/SFNS.ttf"

AltFont == "/System/Library/Fonts/Supplemental/Arial Unicode.ttf"

Fonts == {PrimaryFont, AltFont}

NoFont == [face |-> "", size |-> 0]

\* ImageFont.truetype: raises when the file cannot be opened or the size is
\* not positive
truetype(path, size) ==
    IF path \in fontsAvail /\ size > 0
    THEN [ok |-> TRUE, font |-> [face |-> path, size |-> size]]
    ELSE [ok |-> FALSE, font |-> NoFont]

\* ImageFont.load_default(): the built-in font, whatever size was asked for
load_default == [face |-> "default", size |-> 0]

get_font_no_inner_try(size) ==
    LET a == truetype(PrimaryFont, size)
        b == truetype(AltFont, size)
    IN  IF a.ok
        THEN [raised |-> FALSE, size |-> size, font |-> a.font, tried |-> <<PrimaryFont>>]
        ELSE [raised |-> ~b.ok, size |-> size,
              font |-> IF b.ok THEN b.font ELSE NoFont,
              tried |-> <<PrimaryFont, AltFont>>]

\* get_font: the font handle returned, the candidates tried in order, and
\* whether an exception left the function
get_font(size) ==
    LET a == truetype(PrimaryFont, size)
        b == truetype(AltFont, size)
    IN  IF a.ok
        THEN [raised |-> FALSE, size |-> size, font |-> a.font, tried |-> <<PrimaryFont>>]
        ELSE IF b.ok
        THEN [raised |-> FALSE, size |-> size, font |-> b.font,
              tried |-> <<PrimaryFont, AltFont>>]
        ELSE [raised |-> FALSE, size |-> size, font |-> load_default,
              tried |-> <<PrimaryFont, AltFont>>]

\* ------------------------------------------------------------------ bitmaps
Min(a, b) == IF a < b THEN a ELSE b

Max(a, b) == IF a > b THEN a ELSE b

NoImg == [kind |-> "none", mode |-> "", width |-> 0, height |-> 0,
          fonts |-> <<>>, ops |-> <<>>]

\* what img.save stores: the pixel mode and dimensions of the bitmap
Bitmap(image) ==
    [mode |-> image.mode, width |-> image.width, height |-> image.height,
     complete |-> TRUE]

\* a file left behind by a save that failed half way
Truncated == [mode |-> "", width |-> 0, height |-> 0, complete |-> FALSE]

\* the outcomes of a generator call that the environment decides
Faults == {"none", "draw", "save", "save_partial"}

\* (left, top, right, bottom) boxes that textbbox((0,0), "A") may measure
BBoxes == {<<0, 0, 6, 8>>, <<2, 0, 8, 8>>, <<0, 4, 6, 12>>}

Swallow(e) == err' = "none"

\* an exception that nothing catches
Raise(e) == err' = e

\* img.save(path): needs the directory of path; the file holds the bitmap
Save(image, path, fault) ==
    IF Parent(path) \notin dirs
    THEN Raise("FileNotFoundError") /\ UNCHANGED <<files, written>>
    ELSE IF fault = "save"
    THEN Raise("OSError:save") /\ UNCHANGED <<files, written>>
    ELSE IF fault = "save_partial"
    THEN /\ Raise("OSError:save")
         /\ files' = (path :> Truncated) @@ files
         /\ UNCHANGED written
    ELSE /\ err' = "none"
         /\ files' = (path :> Bitmap(image)) @@ files
         /\ written' = Append(written, path)

\* the common shape of the three generators: build the bitmap, then save it
Generate(image, path, fault) ==
    IF fault = "draw"
    THEN Raise("OSError:draw") /\ img' = NoImg /\ UNCHANGED <<files, written>>
    ELSE IF \E i \in 1..Len(image.fonts) : image.fonts[i].raised
    THEN Raise("font") /\ img' = NoImg /\ UNCHANGED <<files, written>>
    ELSE img' = image /\ Save(image, path, fault)

IconRadiusHalf(size) == size \div 2

\* r of the accent circle
IconRadius(size) == size \div 3

IconImageWide(size) ==
    [kind |-> "icon", mode |-> "RGBA", width |-> size + 1, height |-> size]

\* Image.new("RGBA", (size, size), ...)
IconImage(size) ==
    [kind |-> "icon", mode |-> "RGBA", width |-> size, height |-> size]

\* create_icon(size, filename); bbox is what textbbox measures
create_icon(size, filename, bbox, fault) ==
    LET radius == Max(6, size \div 8)
        r  == IconRadius(size)
        cx == size \div 2
        cy == size \div 2
        font == get_font(size \div 3)
        tw == bbox[3]
        th == bbox[4]
        image == IconImage(size) @@
                 [fonts |-> <<font>>,
                  ops |-> << [op |-> "rounded_rectangle",
                              box |-> <<0, 0, size - 1, size - 1>>,
                              radius |-> radius],
                             [op |-> "ellipse",
                              box |-> <<cx - r, cy - r, cx + r, cy + r>>],
                             [op |-> "text", text |-> "A", bbox |-> bbox,
                              at2 |-> <<2 * cx - tw, 2 * cy - th>>] >>]
    IN  Generate(image, Join(ASSETS_DIR, filename), fault)

ScreenshotNameFixed(idx) == "screenshot-1.png"

\* f"screenshot-{idx}.png"
ScreenshotName(idx) == "screenshot-" \o ToString(idx) \o ".png"

\* width, height = 1280, 800
ScreenshotSize == <<1280, 800>>

\* create_screenshot(idx, title, subtitle)
create_screenshot(idx, title, subtitle, fault) ==
    LET width  == ScreenshotSize[1]
        height == ScreenshotSize[2]
        title_font    == get_font(52)
        subtitle_font == get_font(28)
        foot_font     == get_font(18)
        block(y) == [op |-> "rounded_rectangle",
                     box |-> <<48, y, width - 48, y + 140>>, radius |-> 16]
        image == [kind |-> "screenshot", mode |-> "RGB",
                  width |-> width, height |-> height,
                  fonts |-> <<title_font, subtitle_font, foot_font>>,
                  ops |-> << [op |-> "rectangle", box |-> <<0, 0, width, 96>>],
                             [op |-> "text", text |-> title, at |-> <<48, 28>>],
                             [op |-> "text", text |-> subtitle, at |-> <<48, 96 + 24>>],
                             block(180), block(180 + 160), block(180 + 2 * 160),
                             [op |-> "text",
                              text |-> "Placeholder screenshot (auto-generated)",
                              at |-> <<48, height - 40>>] >>]
    IN  Generate(image, Join(SCREENSHOTS_DIR, ScreenshotName(idx)), fault)

PromoImageFixed(width, height) ==
    [kind |-> "promo", mode |-> "RGB", width |-> 440, height |-> 280]

\* Image.new("RGB", (width, height), ...)
PromoImage(width, height) ==
    [kind |-> "promo", mode |-> "RGB", width |-> width, height |-> height]

\* create_promo(width, height, filename, title, subtitle).  The stripes are
\* the rectangles of "for i in range(0, height, 6)".  The three texts are
\* placed from their measured extents in floating point; the text ops keep
\* the strings and fonts, not the positions.
create_promo(width, height, filename, title, subtitle, fault) ==
    LET stripe(k) == LET i == 6 * (k - 1)
                         shade == 24 + (i % 48)
                     IN  [op |-> "rectangle", box |-> <<0, i, width, i + 3>>,
                          fill |-> <<shade, shade + 2, shade + 5>>]
        nstripes == (height + 5) \div 6
        title_font    == get_font(Min(width \div 12, 64))
        subtitle_font == get_font(Min(width \div 24, 32))
        pill_font     == get_font(Min(width \div 32, 22))
        image == PromoImage(width, height) @@
                 [fonts |-> <<title_font, subtitle_font, pill_font>>,
                  ops |-> [k \in 1..nstripes |-> stripe(k)] \o
                          << [op |-> "text", text |-> title],
                             [op |-> "text", text |-> subtitle],
                             [op |-> "rounded_rectangle", radius |-> 18],
                             [op |-> "text",
                              text |-> "One-click prompt optimization"] >>]
    IN  Generate(image, Join(STORE_DIR, filename), fault)

\* ensure_dirs(); the f-th mkdir is refused by the operating system
ensure_dirs(f) ==
    LET r == ensure_loop(dirs, 1, f)
    IN  /\ dirs' = r.dirs
        /\ IF r.err = "none" THEN err' = "none" ELSE Raise(r.err)

\* ------------------------------------------------------------------- driver
MainWithoutLastIcon ==
    << [fn |-> "ensure_dirs"],
       [fn |-> "create_icon", size |-> 16, filename |-> "icon16.png"],
       [fn |-> "create_icon", size |-> 32, filename |-> "icon32.png"],
       [fn |-> "create_icon", size |-> 48, filename |-> "icon48.png"],
       [fn |-> "create_screenshot", idx |-> 1, title |-> "One-click Optimization",
        subtitle |-> "Upgrade prompts while preserving intent"],
       [fn |-> "create_screenshot", idx |-> 2, title |-> "Dashboard & Insights",
        subtitle |-> "Track improvements and time saved"],
       [fn |-> "create_screenshot", idx |-> 3, title |-> "Works Across Platforms",
        subtitle |-> "ChatGPT, Claude, Gemini, Perplexity, Copilot, Poe"],
       [fn |-> "create_screenshot", idx |-> 4, title |-> "Achievements",
        subtitle |-> "Build better prompting habits over time"],
       [fn |-> "create_screenshot", idx |-> 5, title |-> "Before -> After",
        subtitle |-> "See improvements called out clearly"],
       [fn |-> "create_promo", width |-> 440, height |-> 280,
        filename |-> "promo-440x280.png", title |-> "MyAyAI",
        subtitle |-> "AI Prompt Optimizer"],
       [fn |-> "print",
        msg |-> "Generated icons, screenshots, and promo placeholders."] >>

\* the statements of main(), in order
Main ==
    << [fn |-> "ensure_dirs"],
       [fn |-> "create_icon", size |-> 16, filename |-> "icon16.png"],
       [fn |-> "create_icon", size |-> 32, filename |-> "icon32.png"],
       [fn |-> "create_icon", size |-> 48, filename |-> "icon48.png"],
       [fn |-> "create_icon", size |-> 128, filename |-> "icon128.png"],
       [fn |-> "create_screenshot", idx |-> 1, title |-> "One-click Optimization",
        subtitle |-> "Upgrade prompts while preserving intent"],
       [fn |-> "create_screenshot", idx |-> 2, title |-> "Dashboard & Insights",
        subtitle |-> "Track improvements and time saved"],
       [fn |-> "create_screenshot", idx |-> 3, title |-> "Works Across Platforms",
        subtitle |-> "ChatGPT, Claude, Gemini, Perplexity, Copilot, Poe"],
       [fn |-> "create_screenshot", idx |-> 4, title |-> "Achievements",
        subtitle |-> "Build better prompting habits over time"],
       [fn |-> "create_screenshot", idx |-> 5, title |-> "Before -> After",
        subtitle |-> "See improvements called out clearly"],
       [fn |-> "create_promo", width |-> 440, height |-> 280,
        filename |-> "promo-440x280.png", title |-> "MyAyAI",
        subtitle |-> "AI Prompt Optimizer"],
       [fn |-> "print",
        msg |-> "Generated icons, screenshots, and promo placeholders."] >>

\* the statement main() is at
Stmt == Main[pc + 1]

AtStmt(fn) == status = "running" /\ pc < Len(Main) /\ Stmt.fn = fn

\* a statement of main() returns or raises: an exception ends the process,
\* the return of the last statement ends main()
Return ==
    /\ pc' = IF err' = "none" THEN pc + 1 ELSE pc
    /\ status' = IF err' # "none" THEN "crashed"
                 ELSE IF pc + 1 = Len(Main) THEN "done" ELSE "running"

MainEnsureDirs ==
    /\ AtStmt("ensure_dirs")
    /\ call' = Stmt
    /\ \E f \in 0..Len(EnsureDirList) : ensure_dirs(f)
    /\ Return
    /\ UNCHANGED <<files, fontsAvail, img, written, out, history>>

MainCreateIcon ==
    /\ AtStmt("create_icon")
    /\ call' = Stmt
    /\ \E bbox \in BBoxes, fault \in Faults :
          create_icon(Stmt.size, Stmt.filename, bbox, fault)
    /\ Return
    /\ UNCHANGED <<dirs, fontsAvail, out, history>>

MainCreateScreenshot ==
    /\ AtStmt("create_screenshot")
    /\ call' = Stmt
    /\ \E fault \in Faults :
          create_screenshot(Stmt.idx, Stmt.title, Stmt.subtitle, fault)
    /\ Return
    /\ UNCHANGED <<dirs, fontsAvail, out, history>>

MainCreatePromo ==
    /\ AtStmt("create_promo")
    /\ call' = Stmt
    /\ \E fault \in Faults :
          create_promo(Stmt.width, Stmt.height, Stmt.filename, Stmt.title,
                       Stmt.subtitle, fault)
    /\ Return
    /\ UNCHANGED <<dirs, fontsAvail, out, history>>

MainPrint ==
    /\ AtStmt("print")
    /\ call' = Stmt
    /\ out' = Append(out, Stmt.msg)
    /\ err' = "none"
    /\ Return
    /\ UNCHANGED <<dirs, files, fontsAvail, img, written, history>>

\* the script is started again after a run that ended (completed or not);
\* the fonts installed may have changed in between
Rerun ==
    /\ status \in {"done", "crashed"}
    /\ Len(history) + 1 < MaxRuns
    /\ history' = Append(history, [status |-> status, written |-> written,
                                   files |-> DOMAIN files])
    /\ pc' = 0
    /\ status' = "running"
    /\ err' = "none"
    /\ call' = [fn |-> "none"]
    /\ img' = NoImg
    /\ written' = <<>>
    /\ out' = <<>>
    /\ fontsAvail' \in SUBSET Fonts
    /\ UNCHANGED <<dirs, files>>

\* --------------------------------------------------------------- initially
\* a bitmap left by an earlier version of the script
Stale == [mode |-> "RGB", width |-> 64, height |-> 64, complete |-> TRUE]

\* the directory sets the script may find: ROOT holds scripts/, so it exists
DirSets ==
    {ds \in SUBSET (Ancestors(ASSETS_DIR) \cup Ancestors(SCREENSHOTS_DIR)) :
        /\ ROOT \in ds
        /\ \A d \in ds : d = ROOT \/ Parent(d) \in ds}

\* files that may be there before the first run
OldFiles == {ASSETS_DIR \o <<"icon16.png">>, SCREENSHOTS_DIR \o <<"old.png">>}

Init ==
    /\ dirs \in DirSets
    /\ \E old \in SUBSET OldFiles :
          /\ \A p \in old : Parent(p) \in dirs
          /\ files = [p \in old |-> Stale]
    /\ fontsAvail \in SUBSET Fonts
    /\ pc = 0
    /\ status = "running"
    /\ err = "none"
    /\ call = [fn |-> "none"]
    /\ img = NoImg
    /\ written = <<>>
    /\ out = <<>>
    /\ history = <<>>

Next ==
    \/ MainEnsureDirs
    \/ MainCreateIcon
    \/ MainCreateScreenshot
    \/ MainCreatePromo
    \/ MainPrint
    \/ Rerun

Spec == Init /\ [][Next]_vars

\* ------------------------------------------------- the functions on their own
\* The generators are module-level functions: any caller may call them with
\* any arguments, in any order.  An exception ends the calling process.
IconSizes == (1..MaxSmallSize) \cup {16, 32, 48, 128}

IconFilenames == {"icon16.png", "icon.png"}

PromoWidths == {440, 96}

PromoHeights == {280, 50}

Titles == {"MyAyAI", "T"}

CanCall == status = "running" /\ pc < MaxCalls

Returned ==
    /\ pc' = pc + 1
    /\ status' = IF err' # "none" THEN "crashed" ELSE "running"

CallEnsureDirs ==
    /\ CanCall
    /\ call' = [fn |-> "ensure_dirs"]
    /\ \E f \in 0..Len(EnsureDirList) : ensure_dirs(f)
    /\ Returned
    /\ UNCHANGED <<files, fontsAvail, img, written, out, history>>

CallCreateIcon ==
    /\ CanCall
    /\ \E size \in IconSizes, filename \in IconFilenames, bbox \in BBoxes,
          fault \in Faults :
          /\ call' = [fn |-> "create_icon", size |-> size, filename |-> filename]
          /\ create_icon(size, filename, bbox, fault)
    /\ Returned
    /\ UNCHANGED <<dirs, fontsAvail, out, history>>

CallCreateScreenshot ==
    /\ CanCall
    /\ \E idx \in 1..2, title \in Titles, fault \in Faults :
          /\ call' = [fn |-> "create_screenshot", idx |-> idx, title |-> title,
                       subtitle |-> "S"]
          /\ create_screenshot(idx, title, "S", fault)
    /\ Returned
    /\ UNCHANGED <<dirs, fontsAvail, out, history>>

CallCreatePromo ==
    /\ CanCall
    /\ \E width \in PromoWidths, height \in PromoHeights, title \in Titles,
          fault \in Faults :
          /\ call' = [fn |-> "create_promo", width |-> width, height |-> height,
                       filename |-> "promo-440x280.png", title |-> title,
                       subtitle |-> "S"]
          /\ create_promo(width, height, "promo-440x280.png", title, "S", fault)
    /\ Returned
    /\ UNCHANGED <<dirs, fontsAvail, out, history>>

NextGen ==
    \/ CallEnsureDirs
    \/ CallCreateIcon
    \/ CallCreateScreenshot
    \/ CallCreatePromo

\* the caller starts in a fresh checkout (only ROOT) or after an earlier
\* run (every directory there), with no output file yet
InitGen ==
    /\ Init
    /\ dirs \in {{ROOT}, Ancestors(ASSETS_DIR) \cup Ancestors(SCREENSHOTS_DIR)}
    /\ DOMAIN files = {}

SpecGen == InitGen /\ [][NextGen]_vars

\* ---------------------------------------------------------------- properties
Range(seq) == {seq[i] : i \in 1..Len(seq)}

NoDuplicates(seq) == \A i, j \in 1..Len(seq) : seq[i] = seq[j] => i = j

ExpectedIcons ==
    {ROOT \o <<"myayai-extension", "assets", "icons", n>> :
        n \in {"icon16.png", "icon32.png", "icon48.png", "icon128.png"}}

ExpectedScreenshots ==
    {ROOT \o <<"store-assets", "screenshots", n>> :
        n \in {"screenshot-1.png", "screenshot-2.png", "screenshot-3.png",
               "screenshot-4.png", "screenshot-5.png"}}

ExpectedPromo == ROOT \o <<"store-assets", "promo-440x280.png">>

ExpectedAll == ExpectedIcons \cup ExpectedScreenshots \cup {ExpectedPromo}

\* the ten output paths in the order main() writes them
ExpectedOrder ==
    << ROOT \o <<"myayai-extension", "assets", "icons", "icon16.png">>,
       ROOT \o <<"myayai-extension", "assets", "icons", "icon32.png">>,
       ROOT \o <<"myayai-extension", "assets", "icons", "icon48.png">>,
       ROOT \o <<"myayai-extension", "assets", "icons", "icon128.png">>,
       ROOT \o <<"store-assets", "screenshots", "screenshot-1.png">>,
       ROOT \o <<"store-assets", "screenshots", "screenshot-2.png">>,
       ROOT \o <<"store-assets", "screenshots", "screenshot-3.png">>,
       ROOT \o <<"store-assets", "screenshots", "screenshot-4.png">>,
       ROOT \o <<"store-assets", "screenshots", "screenshot-5.png">>,
       ROOT \o <<"store-assets", "promo-440x280.png">> >>

Saved(p) == p \in DOMAIN files /\ files[p].complete

\* C1: when a run of main() has completed, the four icon files and the five
\* screenshot files exist, each written by this run; and whenever the
\* completion message is on the output, every one of the ten files (the promo
\* tile included) has already been written by this run.
C1_AssetsExistAfterRun ==
    /\ status = "done" =>
          /\ \A p \in ExpectedIcons \cup ExpectedScreenshots :
                Saved(p) /\ p \in Range(written)
          /\ Len(out) = 1
    /\ out # <<>> => \A p \in ExpectedAll : Saved(p) /\ p \in Range(written)

C1_Witness ==
    status = "done" /\ Len(out) = 1 /\ Len(written) = 10 /\ history = <<>>

\* C2: a call create_icon(size, filename) builds a bitmap of size x size, and
\* when it returns the file ASSETS_DIR/filename holds a size x size bitmap;
\* the driver's icon calls are the sizes 16, 32, 48, 128, each under the file
\* name "icon<size>.png".
C2_IconDimensions ==
    /\ call.fn = "create_icon" /\ img.kind = "icon" =>
          img.width = call.size /\ img.height = call.size
    /\ call.fn = "create_icon" /\ err = "none" =>
          LET p == ROOT \o <<"myayai-extension", "assets", "icons", call.filename>>
          IN  /\ Saved(p)
              /\ files[p].width = call.size
              /\ files[p].height = call.size
    /\ {<<Main[i].size, Main[i].filename>> :
           i \in {k \in 1..Len(Main) : Main[k].fn = "create_icon"}}
       = {<<n, "icon" \o ToString(n) \o ".png">> : n \in {16, 32, 48, 128}}

C2_Witness ==
    /\ call.fn = "create_icon" /\ call.size = 128 /\ call.filename = "icon16.png"
    /\ err = "none"
    /\ files[ROOT \o <<"myayai-extension", "assets", "icons", "icon16.png">>].width = 128

\* C5: within one run of main() no path is written twice, a completed run
\* has written ten pairwise distinct paths, and no step of the run changes a
\* file that an earlier step of the same run wrote.
C5_EachPathWrittenOnce ==
    /\ [](/\ NoDuplicates(written)
          /\ status = "done" => Cardinality(Range(written)) = 10)
    /\ [][history' = history =>
            \A p \in Range(written) : p \in DOMAIN files' /\ files'[p] = files[p]]_vars

C5_Witness == status = "done" /\ Cardinality(Range(written)) = 10

\* C6: once ensure_dirs() has returned in a run, the icons directory, the
\* screenshots directory and the store-assets directory exist, so every path
\* the run writes lies in an existing directory; and ensure_dirs() raises
\* neither because a directory is already there nor because a parent is
\* missing.
C6_DirsBeforeWrites ==
    /\ pc >= 1 =>
          {ROOT \o <<"myayai-extension", "assets", "icons">>,
           ROOT \o <<"store-assets">>,
           ROOT \o <<"store-assets", "screenshots">>} \subseteq dirs
    /\ \A p \in Range(written) : Parent(p) \in dirs
    /\ written # <<>> => pc >= 1
    /\ err \notin {"FileExistsError", "FileNotFoundError"}

C6_Witness ==
    /\ history # <<>>
    /\ history[1].status = "done"
    /\ ExpectedPromo \in Range(written)

\* C7: a complete run after an earlier complete run writes the same set of
\* paths as that run, and leaves the same set of files in existence.
C7_SamePathsOnRerun ==
    status = "done" =>
       \A i \in 1..Len(history) :
          history[i].status = "done" =>
             /\ Range(written) = Range(history[i].written)
             /\ DOMAIN files = history[i].files

C7_Witness ==
    /\ status = "done"
    /\ Len(history) = 1
    /\ history[1].status = "done"
    /\ Len(written) = 10

\* C8: a failing directory creation, drawing call or save ends the run at
\* that statement: the paths written are always a prefix of main()'s order,
\* after a failure the success message is absent and the earlier files are
\* in place, and nothing more is written, printed or executed in that run.
C8_FailureIsFatal ==
    /\ [](/\ Len(written) <= 10
          /\ written = SubSeq(ExpectedOrder, 1, Len(written))
          /\ (err # "none") = (status = "crashed")
          /\ err # "none" =>
                /\ out = <<>>
                /\ Len(written) = Max(pc - 1, 0)
                /\ \A p \in Range(written) : Saved(p))
    /\ [][err # "none" /\ history' = history =>
            UNCHANGED <<files, written, out, pc, status>>]_vars

C8_Witness ==
    /\ status = "crashed"
    /\ err = "OSError:save"
    /\ pc = 6
    /\ Len(written) = 5
    /\ ExpectedOrder[6] \in DOMAIN files
    /\ ~files[ExpectedOrder[6]].complete

PromoPath(filename) == ROOT \o <<"store-assets", filename>>

ScreenshotPath(name) == ROOT \o <<"store-assets", "screenshots", name>>

\* C3 as stated: every bitmap the promo generator saves is 440x280 and every
\* bitmap create_screenshot saves is 1280x800, whatever the arguments.
C3_FixedDimensions ==
    /\ call.fn = "create_promo" /\ err = "none" =>
          /\ Saved(PromoPath(call.filename))
          /\ files[PromoPath(call.filename)].width = 440
          /\ files[PromoPath(call.filename)].height = 280
    /\ call.fn = "create_screenshot" /\ err = "none" =>
          \E n \in {"screenshot-1.png", "screenshot-2.png"} :
             /\ Saved(ScreenshotPath(n))
             /\ files[ScreenshotPath(n)].width = 1280
             /\ files[ScreenshotPath(n)].height = 800

\* C3 amended: every bitmap create_screenshot saves is 1280x800, whatever the
\* arguments; the bitmap create_promo saves has the width and height it was
\* called with, which are 440 and 280 in the one call main() makes.
C3_DimensionsAsCalled ==
    /\ call.fn = "create_promo" /\ img.kind = "promo" =>
          img.width = call.width /\ img.height = call.height
    /\ call.fn = "create_promo" /\ err = "none" =>
          /\ Saved(PromoPath(call.filename))
          /\ files[PromoPath(call.filename)].width = call.width
          /\ files[PromoPath(call.filename)].height = call.height
    /\ call.fn = "create_screenshot" /\ img.kind = "screenshot" =>
          img.width = 1280 /\ img.height = 800
    /\ call.fn = "create_screenshot" /\ err = "none" =>
          LET p == ScreenshotPath("screenshot-" \o ToString(call.idx) \o ".png")
          IN  Saved(p) /\ files[p].width = 1280 /\ files[p].height = 800
    /\ \A i \in 1..Len(Main) :
          Main[i].fn = "create_promo" => Main[i].width = 440 /\ Main[i].height = 280
    /\ \E i \in 1..Len(Main) : Main[i].fn = "create_promo"

C3_Witness ==
    /\ call.fn = "create_promo" /\ call.width = 96 /\ call.height = 50
    /\ err = "none"
    /\ files[PromoPath("promo-440x280.png")].width = 96
    /\ ScreenshotPath("screenshot-2.png") \in DOMAIN files

\* whether loading the candidate at this size works on this machine
Loads(path, size) == path \in fontsAvail /\ size >= 1

\* C4: no exception leaves get_font and it always returns a font: the
\* primary path is tried first, the alternate only after the primary load
\* failed, the built-in default is returned only after both failed, and a
\* candidate that loads is the font returned.
C4_FontFallback ==
    /\ err # "font"
    /\ \A i \in 1..Len(img.fonts) :
          LET f == img.fonts[i]
          IN  /\ ~f.raised
              /\ f.font.face \in {PrimaryFont, AltFont, "default"}
              /\ f.tried[1] = PrimaryFont
              /\ Len(f.tried) \in {1, 2}
              /\ Len(f.tried) = 2 =>
                    f.tried[2] = AltFont /\ ~Loads(PrimaryFont, f.size)
              /\ Loads(PrimaryFont, f.size) =>
                    f.font = [face |-> PrimaryFont, size |-> f.size] /\ Len(f.tried) = 1
              /\ ~Loads(PrimaryFont, f.size) /\ Loads(AltFont, f.size) =>
                    f.font = [face |-> AltFont, size |-> f.size]
              /\ f.font.face = "default" =>
                    ~Loads(PrimaryFont, f.size) /\ ~Loads(AltFont, f.size)
    /\ img.kind = "icon" => Len(img.fonts) = 1
    /\ img.kind \in {"screenshot", "promo"} => Len(img.fonts) = 3

C4_Witness ==
    /\ fontsAvail = {}
    /\ img.kind = "screenshot"
    /\ err = "none"
    /\ img.fonts[3].font.face = "default"

\* C9 as stated: whatever box textbbox measures for the monogram, the glyph
\* drawn at the computed position has the centre of its box at the icon
\* centre (size // 2, size // 2).  Doubled coordinates: the glyph's box spans
\* at + left .. at + right.
C9_GlyphCentred ==
    call.fn = "create_icon" /\ img.kind = "icon" =>
       LET t  == img.ops[3]
           cx == call.size \div 2
           cy == call.size \div 2
       IN  /\ t.at2[1] + t.bbox[1] + t.bbox[3] = 2 * cx
           /\ t.at2[2] + t.bbox[2] + t.bbox[4] = 2 * cy

\* C10 as stated: the accent circle is centred at (size // 2, size // 2), its
\* diameter is size // 3, and it lies inside the bitmap.
C10_CircleDiameterThird ==
    call.fn = "create_icon" /\ img.kind = "icon" =>
       LET b == img.ops[2].box
       IN  /\ b[1] + b[3] = 2 * (call.size \div 2)
           /\ b[2] + b[4] = 2 * (call.size \div 2)
           /\ b[3] - b[1] = call.size \div 3
           /\ b[4] - b[2] = call.size \div 3
           /\ 0 <= b[1] /\ b[3] <= call.size - 1
           /\ 0 <= b[2] /\ b[4] <= call.size - 1

\* C10 amended: the accent circle is centred at (size // 2, size // 2), its
\* radius is size // 3 (the box drawn spans 2 * (size // 3) each way), and it
\* lies inside the size x size bitmap.
C10_CircleRadiusThird ==
    call.fn = "create_icon" /\ img.kind = "icon" =>
       LET b == img.ops[2].box
       IN  /\ img.ops[2].op = "ellipse"
           /\ b[1] + b[3] = 2 * (call.size \div 2)
           /\ b[2] + b[4] = 2 * (call.size \div 2)
           /\ b[3] - b[1] = 2 * (call.size \div 3)
           /\ b[4] - b[2] = 2 * (call.size \div 3)
           /\ 0 <= b[1] /\ b[3] <= img.width - 1
           /\ 0 <= b[2] /\ b[4] <= img.height - 1

C10_Witness ==
    /\ call.fn = "create_icon" /\ call.size = 5
    /\ img.kind = "icon"
    /\ img.ops[2].box = <<1, 1, 3, 3>>
====
